---- MODULE Spec2Model ----
(***************************************************************************)
(* Model of bzt/modules/grinder.py: the Grinder executor's lifecycle       *)
(* (prepare, startup, check, shutdown, post_process), the properties file  *)
(* prepare writes, DataLogReader, the reader that tails the KPI log the    *)
(* Grinder subprocess writes, and the Grinder tool with its mirrors        *)
(* manager, which _check_installed checks and installs.                    *)
(*                                                                         *)
(* Text is a sequence of one-character strings, so that strip, split,      *)
(* isdigit and int are computed character by character as Python does.     *)
(***************************************************************************)
EXTENDS Integers, Sequences, FiniteSets, TLC

\* ------------------------------------------------------------------ bounds

\* The writer flushes its buffer at every multiple of FlushStep characters
\* and at the end of every line.
FlushStep == 22
\* How many times the reader is polled while the log is missing or empty.
MaxNotReady == 2
\* The wall clock runs from 1 to MaxTime.
MaxTime == 4

\* ------------------------------------------------------- Python primitives

None == <<>>
Some(x) == <<x>>

Whitespace == {" ", "\n"}
Digits == {"0", "1", "2", "3", "4", "5", "6", "7", "8", "9"}
DigitVal == [d \in Digits |->
    CASE d = "0" -> 0 [] d = "1" -> 1 [] d = "2" -> 2 [] d = "3" -> 3
      [] d = "4" -> 4 [] d = "5" -> 5 [] d = "6" -> 6 [] d = "7" -> 7
      [] d = "8" -> 8 [] d = "9" -> 9]

MaxOf(S) == CHOOSE x \in S : \A y \in S : y <= x

\* The k-th smallest element of a finite set of integers.
Nth(S, k) == CHOOSE p \in S : Cardinality({q \in S : q < p}) = k - 1

\* str.strip(): leading and trailing whitespace removed.
Strip(s) ==
    IF \A i \in 1..Len(s) : s[i] \in Whitespace THEN <<>>
    ELSE LET first == CHOOSE i \in 1..Len(s) :
                          s[i] \notin Whitespace /\ \A j \in 1..(i - 1) : s[j] \in Whitespace
             last == CHOOSE i \in 1..Len(s) :
                          s[i] \notin Whitespace /\ \A j \in (i + 1)..Len(s) : s[j] \in Whitespace
         IN SubSeq(s, first, last)

\* str.split(d): the fields between the occurrences of d ("" gives [""]).
Split(s, d) ==
    LET P == {i \in 1..Len(s) : s[i] = d}
        n == Cardinality(P) + 1
    IN [k \in 1..n |->
          SubSeq(s, IF k = 1 THEN 1 ELSE Nth(P, k - 1) + 1,
                    IF k = n THEN Len(s) ELSE Nth(P, k) - 1)]

\* str.endswith("\n")
EndsWithNL(s) == Len(s) > 0 /\ s[Len(s)] = "\n"

\* str.isdigit(): non-empty and every character a digit.
IsDigit(s) == Len(s) > 0 /\ \A i \in 1..Len(s) : s[i] \in Digits

RECURSIVE Decimal(_)
Decimal(s) == IF s = <<>> THEN 0
              ELSE Decimal(SubSeq(s, 1, Len(s) - 1)) * 10 + DigitVal[s[Len(s)]]

\* int(s): surrounding whitespace and one sign are accepted, then digits.
IntBody(s) == LET t == Strip(s)
              IN IF Len(t) > 0 /\ t[1] \in {"-", "+"} THEN Tail(t) ELSE t
IntOK(s) == IsDigit(IntBody(s))
IntOf(s) == LET t == Strip(s)
            IN IF Len(t) > 0 /\ t[1] = "-" THEN 0 - Decimal(IntBody(s))
               ELSE Decimal(IntBody(s))

\* n / 1000.0: the float is kept exactly, as whole seconds and thousandths
\* (both carry the sign of n).
Div1000(n) ==
    IF n >= 0 THEN [sec |-> n \div 1000, ms |-> n % 1000]
    ELSE [sec |-> 0 - ((0 - n) \div 1000), ms |-> 0 - ((0 - n) % 1000)]
\* a + b on two such floats
FAdd(a, b) == Div1000((a.sec * 1000 + a.ms) + (b.sec * 1000 + b.ms))
\* int(x) on such a float truncates toward zero
FInt(a) == a.sec

\* file.readlines(hint) on the text from the file position to the end of
\* file: whole lines with their terminators, the last one possibly without;
\* with hint > 0 reading stops after the line that brings the total to hint.
AllLines(s) ==
    LET P == {i \in 1..Len(s) : s[i] = "\n"}
        n == Cardinality(P)
        whole == [k \in 1..n |->
                    SubSeq(s, IF k = 1 THEN 1 ELSE Nth(P, k - 1) + 1, Nth(P, k))]
        done == IF n = 0 THEN 0 ELSE MaxOf(P)
    IN IF done < Len(s) THEN Append(whole, SubSeq(s, done + 1, Len(s))) ELSE whole

RECURSIVE TotalLen(_)
TotalLen(ls) == IF ls = <<>> THEN 0 ELSE Len(Head(ls)) + TotalLen(Tail(ls))

ReadLinesOf(s, hint) ==
    LET all == AllLines(s)
    IN IF hint <= 0 THEN all
       ELSE LET enough == {k \in 1..Len(all) : TotalLen(SubSeq(all, 1, k)) >= hint}
            IN IF enough = {} THEN all
               ELSE SubSeq(all, 1, CHOOSE k \in enough : \A j \in enough : k <= j)

\* file.readline(): the first line, terminator included, or what there is.
ReadLineOf(s) == IF s = <<>> THEN <<>> ELSE AllLines(s)[1]

\* ------------------------------------------------------------ the KPI log

\* 1 MB limit to read on an incremental poll
ReadLimit == 1024 * 1024

Delimiter == ","

ColStartTime == <<"S","t","a","r","t"," ","t","i","m","e"," ","(","m","s"," ","s","i","n","c","e"," ","E","p","o","c","h",")">>
ColTestTime == <<"T","e","s","t"," ","t","i","m","e">>
ColFirstByte == <<"T","i","m","e"," ","t","o"," ","f","i","r","s","t"," ","b","y","t","e">>
ColRespCode == <<"H","T","T","P"," ","r","e","s","p","o","n","s","e"," ","c","o","d","e">>
ColResolve == <<"T","i","m","e"," ","t","o"," ","r","e","s","o","l","v","e"," ","h","o","s","t">>
ColEstablish == <<"T","i","m","e"," ","t","o"," ","e","s","t","a","b","l","i","s","h"," ","c","o","n","n","e","c","t","i","o","n">>
ColErrors == <<"E","r","r","o","r","s">>

\* The columns _read looks up, in the order it reads them, and whether the
\* field goes through int().
Columns == <<[name |-> ColStartTime, int |-> TRUE],
             [name |-> ColTestTime, int |-> TRUE],
             [name |-> ColFirstByte, int |-> TRUE],
             [name |-> ColRespCode, int |-> FALSE],
             [name |-> ColResolve, int |-> TRUE],
             [name |-> ColEstablish, int |-> TRUE],
             [name |-> ColErrors, int |-> TRUE]>>

ErrorMessage == "There were some errors in Grinder test"

HeaderLine ==
    ColStartTime \o <<",">> \o ColTestTime \o <<",">> \o ColFirstByte \o <<",">>
    \o ColRespCode \o <<",">> \o ColResolve \o <<",">> \o ColEstablish \o <<",">>
    \o ColErrors \o <<"\n">>

\* Rows the subprocess writes: two data rows, a data row with padded fields
\* and a non-data row; then the malformed lines: an empty line, a line of one
\* field, a row with a non-integer in a required column, a row that is too
\* short.
RowA == <<"1","0","0","0",",","2","5","0",",","5","0",",","2","0","0",",","1","0",",","5",",","0","\n">>
RowB == <<"2","9","9","9",",","3","0",",","7",",","4","0","4",",","1",",","2",",","1","\n">>
RowPadded == <<"1","0","0","0",","," ","2","5","0",",","5","0",","," ","2","0","0"," ",",","1","0",",","5",",","0","\n">>
RowNonData == <<"7",",","x",",","0",",","0",",","0",",","0",",","0","\n">>
RowEmpty == <<"\n">>
RowOneField == <<"o","o","p","s","\n">>
RowBadInt == <<"1","0","0","0",",","2","5","0",",","5","x",",","2","0","0",",","1","0",",","5",",","0","\n">>
RowShort == <<"5",",","7","\n">>

RECURSIVE Flatten(_)
Flatten(ls) == IF ls = <<>> THEN <<>> ELSE Head(ls) \o Flatten(Tail(ls))

\* a data row whose response code is no number
RowCode == <<"1","5","0","0",",","2","0",",","5",",","N","A",",","1",",","1",",","0","\n">>

\* a line with its fields in the order perm gives: field k of the result is
\* field perm[k] of the line
PermuteLine(line, perm) ==
    LET fields == Split(SubSeq(line, 1, Len(line) - 1), Delimiter)
    IN Flatten([k \in 1..Len(fields) |->
                  (IF k = 1 THEN <<>> ELSE <<Delimiter>>) \o fields[perm[k]]]) \o <<"\n">>

\* a log with the columns of its header and of its rows in the order of perm
PermuteLog(lines, perm) == [k \in 1..Len(lines) |-> PermuteLine(lines[k], perm)]

\* "Test time" and "HTTP response code" change places
SwapTestTimeCode == <<1, 4, 3, 2, 5, 6, 7>>
\* "Start time (ms since Epoch)" and "Errors" change places
SwapStartErrors == <<7, 2, 3, 4, 5, 6, 1>>

Logs2 == <<HeaderLine, RowA, RowNonData, RowB>>
LogCode == <<HeaderLine, RowCode, RowB>>

\* The logs the subprocess may write, each a header line and rows; the last
\* two are logs above with their columns permuted.
Logs == <<
    <<HeaderLine, RowA, RowB>>,
    Logs2,
    <<HeaderLine>>,
    <<HeaderLine, RowNonData>>,
    <<HeaderLine, RowPadded, RowA>>,
    <<HeaderLine, RowA, RowEmpty, RowB>>,
    <<HeaderLine, RowOneField, RowA>>,
    <<HeaderLine, RowBadInt, RowA>>,
    <<HeaderLine, RowShort, RowA>>,
    LogCode,
    PermuteLog(LogCode, SwapTestTimeCode),
    PermuteLog(Logs2, SwapStartErrors) >>

\* the log each of Logs is a column permutation of (itself, for most)
LogBase == [f \in 1..Len(Logs) |-> CASE f = 11 -> 10 [] f = 12 -> 2 [] OTHER -> f]
\* and the permutation: column k of log f is column LogPerm[f][k] of its base
LogPerm == [f \in 1..Len(Logs) |->
               CASE f = 11 -> SwapTestTimeCode [] f = 12 -> SwapStartErrors
                 [] OTHER -> [k \in 1..Len(Columns) |-> k]]

LogText == [f \in 1..Len(Logs) |-> Flatten(Logs[f])]

\* The file positions at which line k of log f ends.
LineEnd(f, k) == TotalLen(SubSeq(Logs[f], 1, k))

\* The sizes the file has after a flush of the writer.
FlushPoints(f) ==
    {p \in 1..Len(LogText[f]) :
        p % FlushStep = 0 \/ \E k \in 1..Len(Logs[f]) : p = LineEnd(f, k)}

\* ------------------------------------------------------------------- state

VARIABLES
    log,            \* which of Logs the subprocess writes
    exists,         \* os.path.isfile(kpi_file)
    written,        \* os.path.getsize(kpi_file)
    proc,           \* the subprocess: "none", "running" or "exited"
    exitcode,       \* its exit code once exited
    now,            \* time.time()
    script,         \* GrinderExecutor.script
    kpi_file,       \* GrinderExecutor.kpi_file
    process,        \* GrinderExecutor.process
    retcode,        \* GrinderExecutor.retcode
    start_time,     \* GrinderExecutor.start_time
    end_time,       \* GrinderExecutor.end_time
    reader,         \* GrinderExecutor.reader
    stdout_file,    \* GrinderExecutor.stdout_file
    stderr_file,    \* GrinderExecutor.stderr_file
    fds,            \* DataLogReader.fds
    idx,            \* DataLogReader.idx
    partial_buffer, \* DataLogReader.partial_buffer
    offset,         \* DataLogReader.offset
    buffer,         \* the Samples the reader has yielded, each with the file
                    \* position at which its line ends
    pc,             \* where the _read call in progress stands
    last_pass,      \* the last_pass argument of the _read call in progress
    op,             \* the operation that ran last
    ret,            \* what it returned
    raised,         \* the exception it raised
    openedAt,       \* the file size when __open_fds succeeded (0 before)
    nReads,         \* _read calls that got to readlines: 0, 1, or 2 for more
    firstFinal,     \* whether the first of them was a last_pass
    notReady,       \* _read calls that found the log missing or empty
    finalDone,      \* the last_pass call has been made
    settings,       \* the executor's settings: properties-file, properties
    scenario,       \* the scenario: script, requests, properties-file,
                    \* properties
    load,           \* get_load(): concurrency, ramp_up, duration, iterations
    properties_file, \* the contents of the grinder.properties artifact
    page_source,    \* MirrorsManager.page_source, the mirror page as fetched
    links,          \* the candidates install_with_mirrors got from
                    \* _parse_mirrors
    tool,           \* what is at tool_path: "absent", "ok" or "broken"
    already_installed, \* Grinder.already_installed
    ipc,            \* where _check_installed stands with the Grinder tool
    cand,           \* the candidate install_with_mirrors tries next
    attempted,      \* the URLs contacted so far, in order
    nChecks,        \* how many times the self-check has run
    lastCheck,      \* the exit code of the most recent self-check
    nDownloads,     \* downloads that succeeded
    nUnzips         \* archives extracted

fileVars == <<log, exists, written>>
procVars == <<proc, exitcode>>
execVars == <<script, kpi_file, process, retcode, start_time, end_time, reader,
              stdout_file, stderr_file>>
readerVars == <<fds, idx, partial_buffer, offset, buffer, pc, last_pass>>
ghostVars == <<openedAt, nReads, firstFinal, notReady, finalDone>>
obsVars == <<op, ret, raised>>
confVars == <<settings, scenario, load, properties_file>>
installVars == <<page_source, links, tool, already_installed, ipc, cand, attempted,
                 nChecks, lastCheck, nDownloads, nUnzips>>
toolVars == <<confVars, installVars>>
vars == <<fileVars, procVars, now, execVars, readerVars, obsVars, ghostVars, toolVars>>

NoExc == [cls |-> "none", args |-> <<>>]
Exc(c, m) == [cls |-> c, args |-> <<m>>]

\* what the file holds now
Content == SubSeq(LogText[log], 1, written)

\* ------------------------------------------------------------ DataLogReader

EmptyIdx == [n \in {} |-> 0]

\* __open_fds, the two early returns: the file is there and not empty
FileReady == exists /\ written > 0

\* __open_fds, the header: idx[field.strip()] = _ix for each field of the
\* first line, a later field of the same name replacing an earlier one
HeaderIdx(old, first) ==
    LET header == Split(Strip(first), Delimiter)
        names == {Strip(header[k]) : k \in 1..Len(header)}
    IN [n \in (DOMAIN old) \cup names |->
          IF n \in names
          THEN MaxOf({k \in 1..Len(header) : Strip(header[k]) = n}) - 1
          ELSE old[n]]

\* what fields[self.idx[name]] (and int() of it) raises, "ok" if nothing
ColumnError(ix, fields, col) ==
    IF col.name \notin DOMAIN ix THEN "KeyError"
    ELSE IF ix[col.name] >= Len(fields) THEN "IndexError"
    ELSE IF col.int /\ ~IntOK(fields[ix[col.name] + 1]) THEN "ValueError"
    ELSE "ok"

Field(ix, fields, name) == fields[ix[name] + 1]

\* SampleOf taking the fields by their place in the line
SampleOfPositional(ix, fields) ==
    [t_stamp |-> FInt(Div1000(IntOf(fields[1]))),
     label |-> "",
     concur |-> None,
     r_time |-> Div1000(IntOf(fields[2])),
     con_time |-> FAdd(Div1000(IntOf(fields[5])), Div1000(IntOf(fields[6]))),
     latency |-> Div1000(IntOf(fields[3])),
     r_code |-> Strip(fields[4]),
     error |-> IF IntOf(fields[7]) # 0 THEN Some(ErrorMessage) ELSE None,
     trname |-> ""]

\* SampleOf leaving the time to resolve the host out of the connect time
SampleOfEstablishOnly(ix, fields) ==
    [t_stamp |-> FInt(Div1000(IntOf(Field(ix, fields, ColStartTime)))),
     label |-> "",
     concur |-> None,
     r_time |-> Div1000(IntOf(Field(ix, fields, ColTestTime))),
     con_time |-> Div1000(IntOf(Field(ix, fields, ColEstablish))),
     latency |-> Div1000(IntOf(Field(ix, fields, ColFirstByte))),
     r_code |-> Strip(Field(ix, fields, ColRespCode)),
     error |-> IF IntOf(Field(ix, fields, ColErrors)) # 0
               THEN Some(ErrorMessage) ELSE None,
     trname |-> ""]

\* the tuple _read yields for the fields of a data row
SampleOf(ix, fields) ==
    [t_stamp |-> FInt(Div1000(IntOf(Field(ix, fields, ColStartTime)))),
     label |-> "",
     concur |-> None,
     r_time |-> Div1000(IntOf(Field(ix, fields, ColTestTime))),
     con_time |-> FAdd(Div1000(IntOf(Field(ix, fields, ColResolve))),
                       Div1000(IntOf(Field(ix, fields, ColEstablish)))),
     latency |-> Div1000(IntOf(Field(ix, fields, ColFirstByte))),
     r_code |-> Strip(Field(ix, fields, ColRespCode)),
     error |-> IF IntOf(Field(ix, fields, ColErrors)) # 0
               THEN Some(ErrorMessage) ELSE None,
     trname |-> ""]

\* ProcessLine deciding on the first field instead of the second
ProcessLineFirstField(ix, line) ==
    LET fields == Split(Strip(line), Delimiter)
    IN IF Len(fields) < 2 THEN [kind |-> "raise", exc |-> "IndexError"]
       ELSE IF ~IsDigit(Strip(fields[1])) THEN [kind |-> "skip"]
       ELSE LET bad == {k \in 1..Len(Columns) : ColumnError(ix, fields, Columns[k]) # "ok"}
            IN IF bad # {}
               THEN [kind |-> "raise",
                     exc |-> ColumnError(ix, fields, Columns[Nth(bad, 1)])]
               ELSE [kind |-> "sample", sample |-> SampleOf(ix, fields)]

\* the body of the loop of _read for one complete line
ProcessLine(ix, line) ==
    LET fields == Split(Strip(line), Delimiter)
    IN IF Len(fields) < 2 THEN [kind |-> "raise", exc |-> "IndexError"]
       ELSE IF ~IsDigit(Strip(fields[2])) THEN [kind |-> "skip"]
       ELSE LET bad == {k \in 1..Len(Columns) : ColumnError(ix, fields, Columns[k]) # "ok"}
            IN IF bad # {}
               THEN [kind |-> "raise",
                     exc |-> ColumnError(ix, fields, Columns[Nth(bad, 1)])]
               ELSE [kind |-> "sample", sample |-> SampleOf(ix, fields)]

\* the loop of _read over the lines of one readlines, driven by a consumer
\* that takes `take` Samples and then drops the generator (-1: takes all).
\* pos is the file position of the first of lines; the result is the
\* partial buffer, the Samples yielded and the exception raised.
RECURSIVE ReadLoop(_, _, _, _, _, _)
ReadLoop(ix, lines, pb, pos, out, take) ==
    IF lines = <<>> THEN [pb |-> pb, out |-> out, exc |-> "none"]
    ELSE LET line == Head(lines)
             end == pos + Len(line)
         IN IF ~EndsWithNL(line)
            THEN ReadLoop(ix, Tail(lines), pb \o line, end, out, take)
            ELSE LET r == ProcessLine(ix, pb \o line)
                 IN CASE r.kind = "raise" -> [pb |-> <<>>, out |-> out, exc |-> r.exc]
                      [] r.kind = "skip" -> ReadLoop(ix, Tail(lines), <<>>, end, out, take)
                      [] r.kind = "sample" ->
                           LET out2 == Append(out, [pos |-> end, sample |-> r.sample])
                           IN IF take = 1 THEN [pb |-> <<>>, out |-> out2, exc |-> "none"]
                              ELSE ReadLoop(ix, Tail(lines), <<>>, end, out2,
                                            IF take > 1 THEN take - 1 ELSE take)

\* ResultsReader keeps what _read yields in its buffer
Collect(buf, out) == buf \o out

\* a call is a last_pass only once the subprocess is gone, and no call
\* follows the last_pass
CanCall(lp) == reader # "None" /\ ~finalDone /\ (lp => proc = "exited")

\* ReadNotReady with __open_fds opening the file unchecked: open() raises
ReadNotReadyRaises ==
    /\ pc = "idle" /\ fds = "None" /\ ~FileReady
    /\ notReady < MaxNotReady
    /\ \E lp \in BOOLEAN :
         /\ CanCall(lp)
         /\ finalDone' = lp
    /\ notReady' = notReady + 1
    /\ op' = "_read" /\ ret' = "raise" /\ raised' = Exc("IOError", "No such file or directory")
    /\ UNCHANGED <<toolVars, fileVars, procVars, now, execVars, readerVars,
                   openedAt, nReads, firstFinal>>

\* _read while __open_fds returns False: yields None, on which the consumer
\* stops iterating
ReadNotReady ==
    /\ pc = "idle" /\ fds = "None" /\ ~FileReady
    /\ notReady < MaxNotReady
    /\ \E lp \in BOOLEAN :
         /\ CanCall(lp)
         /\ finalDone' = lp
    /\ notReady' = notReady + 1
    /\ op' = "_read" /\ ret' = "None" /\ raised' = NoExc
    /\ UNCHANGED <<toolVars, fileVars, procVars, now, execVars, readerVars,
                   openedAt, nReads, firstFinal>>

\* _read, first half: __open_fds succeeds and builds the header index
ReadOpen ==
    /\ pc = "idle" /\ fds = "None" /\ FileReady
    /\ \E lp \in BOOLEAN :
         /\ CanCall(lp)
         /\ last_pass' = lp
    /\ fds' = "open"
    /\ idx' = HeaderIdx(idx, ReadLineOf(Content))
    /\ pc' = "opened"
    /\ openedAt' = written
    /\ op' = "_read" /\ ret' = "None" /\ raised' = NoExc
    /\ UNCHANGED <<toolVars, fileVars, procVars, now, execVars, partial_buffer, offset, buffer,
                   nReads, firstFinal, notReady, finalDone>>

\* _read from seek to the end of the loop, the consumer taking `take` Samples
ReadFrom(lp, take) ==
    LET lines == ReadLinesOf(SubSeq(LogText[log], offset + 1, written),
                             IF lp THEN -1 ELSE ReadLimit)
        r == ReadLoop(idx, lines, partial_buffer, offset, <<>>, take)
    IN /\ offset' = offset + TotalLen(lines)
       /\ partial_buffer' = r.pb
       /\ buffer' = Collect(buffer, r.out)
       /\ raised' = IF r.exc = "none" THEN NoExc ELSE Exc(r.exc, "")
       /\ op' = "_read"
       /\ ret' = IF r.exc = "none" THEN "Samples" ELSE "raise"
       /\ pc' = "idle"
       /\ last_pass' = FALSE
       /\ finalDone' = lp
       /\ nReads' = IF nReads = 0 THEN 1 ELSE 2
       /\ firstFinal' = IF nReads = 0 THEN lp ELSE firstFinal
       /\ UNCHANGED <<toolVars, fileVars, procVars, now, execVars, fds, idx, openedAt, notReady>>

\* _read consumed to its end, as ResultsReader consumes it
ReadData ==
    \/ /\ pc = "opened" /\ ReadFrom(last_pass, -1)
    \/ /\ pc = "idle" /\ fds = "open"
       /\ \E lp \in BOOLEAN : CanCall(lp) /\ ReadFrom(lp, -1)

\* --------------------------------------------------------- the subprocess

CreateLog ==
    /\ proc = "running" /\ ~exists
    /\ exists' = TRUE
    /\ UNCHANGED <<toolVars, log, written, procVars, now, execVars, readerVars, obsVars, ghostVars>>

AppendLog ==
    /\ proc = "running" /\ exists
    /\ \E p \in FlushPoints(log) : p > written /\ written' = p
    /\ UNCHANGED <<toolVars, log, exists, procVars, now, execVars, readerVars, obsVars, ghostVars>>

\* the subprocess flushing at the end of a line only
AppendLine ==
    /\ proc = "running" /\ exists
    /\ \E k \in 1..Len(Logs[log]) : LineEnd(log, k) > written /\ written' = LineEnd(log, k)
    /\ UNCHANGED <<toolVars, log, exists, procVars, now, execVars, readerVars, obsVars, ghostVars>>

ExitCodes == {0, 1}

ProcessExit(c) ==
    /\ proc = "running"
    /\ proc' = "exited" /\ exitcode' = c
    /\ UNCHANGED <<toolVars, fileVars, now, execVars, readerVars, obsVars, ghostVars>>

\* ------------------------------------------------------- GrinderExecutor

KpiPath == "grinder-bzt-kpi.log"

\* ---- text

\* s[i..] begins with t
StartsAt(s, t, i) == i + Len(t) - 1 <= Len(s) /\ SubSeq(s, i, i + Len(t) - 1) = t

\* str.replace(old, new) from position `from` on: the occurrences of old,
\* left to right and not overlapping
RECURSIVE ReplaceFrom(_, _, _, _)
ReplaceFrom(s, old, new, from) ==
    LET at == {i \in from..Len(s) : StartsAt(s, old, i)}
    IN IF at = {} THEN SubSeq(s, from, Len(s))
       ELSE LET i == Nth(at, 1)
            IN SubSeq(s, from, i - 1) \o new \o ReplaceFrom(s, old, new, i + Len(old))

\* str.replace(old, new); an empty old matches before every character and
\* at the end
Replace(s, old, new) ==
    IF old = <<>> THEN Flatten([i \in 1..Len(s) |-> new \o <<s[i]>>]) \o new
    ELSE ReplaceFrom(s, old, new, 1)

\* "%s" % n for an integer n >= 0
DigitChar == [d \in 0..9 |-> CHOOSE c \in Digits : DigitVal[c] = d]
RECURSIVE IntStr(_)
IntStr(n) == IF n < 10 THEN <<DigitChar[n]>> ELSE IntStr(n \div 10) \o <<DigitChar[n % 10]>>

\* the text of a file as lines without their terminators
Lines(text) == Split(text, "\n")

\* ---- the host: paths and the engine

\* the directory relative paths are resolved against
Cwd == <<"/","w">>
\* engine.artifacts_dir
ArtifactsDir == <<"/","a">>
\* engine.create_artifact("requests", ".py")
RequestsArtifact == <<"/","a","/","r","e","q","u","e","s","t","s",".","p","y">>

\* os.path.realpath on a path without links
Realpath(path) == IF Len(path) > 0 /\ path[1] = "/" THEN path ELSE Cwd \o <<"/">> \o path

\* os.path.basename
Basename(path) ==
    LET P == {i \in 1..Len(path) : path[i] = "/"}
    IN IF P = {} THEN path ELSE SubSeq(path, MaxOf(P) + 1, Len(path))

\* engine.find_file: the path as the scenario gives it, the file being there
FindFile(path) == path

\* ---- the inputs of prepare

ScriptKey == <<"g","r","i","n","d","e","r",".","s","c","r","i","p","t">>

\* the script the scenario names
ScenarioScript == <<"t",".","p","y">>

\* properties files: one that sets the script path, one that does not
FileWithScript == [name |-> <<"b",".","p">>, content |-> <<"g","r","i","n","d","e","r",".","s","c","r","i","p","t","=","o","l","d",".","p","y","\n">>]
FilePlain == [name |-> <<"p",".","p">>, content |-> <<"g","r","i","n","d","e","r",".","t","h","r","e","a","d","s","=","2","\n">>]
PropsFiles == {None, Some(FileWithScript), Some(FilePlain)}

\* inline properties, as the (key, value) pairs iteritems gives
PropsWithScript == <<[key |-> ScriptKey, val |-> <<"i","n",".","p","y">>]>>
PropsPlain == <<[key |-> <<"g","r","i","n","d","e","r",".","u","s","e","C","o","n","s","o","l","e">>, val |-> <<"5">>]>>
InlineProps == {<<>>, PropsWithScript, PropsPlain}

NoSettings == [file |-> None, props |-> <<>>]
AllSettings == {[file |-> f, props |-> p] : f \in PropsFiles, p \in InlineProps}

\* what the scenario supplies: a script, requests, both or neither
ScenarioKinds ==
    {[script |-> s, requests |-> r] : s \in {None, Some(ScenarioScript)}, r \in BOOLEAN}
Scenarios == {[script |-> k.script, requests |-> k.requests, file |-> None, props |-> <<>>] :
                 k \in ScenarioKinds}
AllScenarios == {[script |-> k.script, requests |-> k.requests, file |-> f, props |-> p] :
                    k \in ScenarioKinds, f \in PropsFiles, p \in InlineProps}

\* load profiles: none, and two processes ramped up over a second for three
\* seconds, one iteration each
NoLoad == [concurrency |-> 0, ramp_up |-> 0, duration |-> 0, iterations |-> 0]
Loads == {NoLoad, [concurrency |-> 2, ramp_up |-> 1, duration |-> 3, iterations |-> 1]}

\* ---- the properties file

\* the contents of a properties file between its two marker lines
PropsFileText(start, end, file) ==
    IF file = None THEN <<>>
    ELSE start \o file[1].name \o <<"\n">> \o file[1].content
         \o end \o file[1].name \o <<"\n", "\n">>

RECURSIVE KeyValLines(_)
KeyValLines(props) ==
    IF props = <<>> THEN <<>>
    ELSE Head(props).key \o <<"=">> \o Head(props).val \o <<"\n">> \o KeyValLines(Tail(props))

\* inline properties between their two marker lines
InlineText(start, end, props) ==
    IF props = <<>> THEN <<>> ELSE start \o KeyValLines(props) \o end

\* __write_base_props
WriteBaseProps(st) ==
    PropsFileText(<<"#"," ","B","a","s","e"," ","P","r","o","p","e","r","i","e","s"," ","F","i","l","e"," ","S","t","a","r","t",":"," ">>,
                  <<"#"," ","B","a","s","e"," ","P","r","o","p","e","r","i","e","s"," ","F","i","l","e"," ","E","n","d",":"," ">>, st.file)
    \o InlineText(<<"#"," ","B","a","s","e"," ","P","r","o","p","e","r","i","e","s"," ","S","t","a","r","t","\n">>,
                  <<"#"," ","B","a","s","e"," ","P","r","o","p","e","r","i","e","s"," ","E","n","d","\n","\n">>, st.props)

\* __write_scenario_props
WriteScenarioProps(sc) ==
    PropsFileText(<<"#"," ","S","c","r","i","p","t"," ","P","r","o","p","e","r","i","e","s"," ","F","i","l","e"," ","S","t","a","r","t",":"," ">>,
                  <<"#"," ","S","c","r","i","p","t"," ","P","r","o","p","e","r","i","e","s"," ","F","i","l","e"," ","E","n","d",":"," ">>, sc.file)
    \o InlineText(<<"#"," ","S","c","e","n","a","r","i","o"," ","P","r","o","p","e","r","i","e","s"," ","S","t","a","r","t","\n">>,
                  <<"#"," ","S","c","e","n","a","r","i","o"," ","P","r","o","p","e","r","i","e","s"," ","E","n","d","\n","\n">>, sc.props)

\* __write_bzt_props, the lines the load profile gives
LoadProps(ld) ==
    IF ld.concurrency = 0 THEN <<>>
    ELSE (IF ld.ramp_up = 0 THEN <<>>
          ELSE <<"g","r","i","n","d","e","r",".","p","r","o","c","e","s","s","I","n","c","r","e","m","e","n","t","I","n","t","e","r","v","a","l","=">>
               \o IntStr((1000 * ld.ramp_up) \div ld.concurrency) \o <<"\n">>)
         \o <<"g","r","i","n","d","e","r",".","p","r","o","c","e","s","s","e","s","=">> \o IntStr(ld.concurrency) \o <<"\n">>
         \o <<"g","r","i","n","d","e","r",".","r","u","n","s","=">> \o IntStr(ld.iterations) \o <<"\n">>
         \o <<"g","r","i","n","d","e","r",".","p","r","o","c","e","s","s","I","n","c","r","e","m","e","n","t","=","1","\n">>
         \o (IF ld.duration = 0 THEN <<>>
             ELSE <<"g","r","i","n","d","e","r",".","d","u","r","a","t","i","o","n","=">> \o IntStr(ld.duration * 1000) \o <<"\n">>)

\* __write_bzt_props
WriteBztProps(scr, ld) ==
    <<"#"," ","B","Z","T"," ","P","r","o","p","e","r","i","e","s"," ","S","t","a","r","t","\n">>
    \o <<"g","r","i","n","d","e","r",".","h","o","s","t","I","D","=","g","r","i","n","d","e","r","-","b","z","t","\n">>
    \o ScriptKey \o <<"=">> \o Realpath(scr) \o <<"\n">>
    \o <<"g","r","i","n","d","e","r",".","l","o","g","D","i","r","e","c","t","o","r","y","=">> \o Realpath(ArtifactsDir) \o <<"\n">>
    \o LoadProps(ld)
    \o <<"#"," ","B","Z","T"," ","P","r","o","p","e","r","i","e","s"," ","E","n","d","\n">>

\* re.compile(r"grinder\.script.*").findall: each match runs from the key to
\* the end of its line
RECURSIVE FindAllScript(_, _)
FindAllScript(text, from) ==
    LET at == {i \in from..Len(text) : StartsAt(text, ScriptKey, i)}
    IN IF at = {} THEN <<>>
       ELSE LET i == Nth(at, 1)
                nl == {j \in i..Len(text) : text[j] = "\n"}
                end == IF nl = {} THEN Len(text) ELSE Nth(nl, 1) - 1
            IN <<SubSeq(text, i, end)>> \o FindAllScript(text, end + 1)

\* __get_res_files_from_script: the resource files and the contents, in which
\* the path of the last grinder.script line is replaced by the name of the
\* scenario's script when the scenario names one
GetResFilesFromScript(sc, contents) ==
    LET found == FindAllScript(contents, 1)
        parts == Split(found[Len(found)], "=")
        file_path_in_prop == Strip(parts[Len(parts)])
    IN IF sc.script # None /\ sc.script[1] # <<>>
       THEN [files |-> <<sc.script[1]>>,
             contents |-> Replace(contents, file_path_in_prop, Basename(sc.script[1]))]
       ELSE [files |-> <<file_path_in_prop>>, contents |-> contents]

\* prepare, lines 141-153: the three sections are written, the file is read
\* back and written again with the contents __get_res_files_from_script gives
PropertiesOf(st, sc, scr, ld) ==
    LET written1 == WriteBaseProps(st) \o WriteScenarioProps(sc) \o WriteBztProps(scr, ld)
        r == GetResFilesFromScript(sc, written1)
    IN IF r.files # <<>> THEN r.contents ELSE written1

\* prepare choosing the requests when the scenario has both
PrepareRequestsFirst ==
    /\ op = "init"
    /\ op' = "prepare"
    /\ \E tools \in {"ready", "failed"} :
         IF tools = "failed"
         THEN /\ raised' = Exc("RuntimeError", "Unable to run Grinder after installation!")
              /\ ret' = "raise"
              /\ UNCHANGED <<script, kpi_file, reader, properties_file>>
         ELSE IF scenario.script = None /\ ~scenario.requests
         THEN /\ raised' = Exc("ValueError", "There must be a scenario file to run Grinder")
              /\ ret' = "raise"
              /\ UNCHANGED <<script, kpi_file, reader, properties_file>>
         ELSE /\ script' = IF scenario.requests THEN Some(RequestsArtifact)
                           ELSE Some(FindFile(scenario.script[1]))
              /\ properties_file' = Some(PropertiesOf(settings, scenario, script'[1], load))
              /\ kpi_file' = KpiPath
              /\ reader' = "DataLogReader"
              /\ raised' = NoExc
              /\ ret' = "None"
    /\ UNCHANGED <<fileVars, procVars, now, process, retcode, start_time, end_time,
                   stdout_file, stderr_file, readerVars, ghostVars,
                   settings, scenario, load, installVars>>

\* prepare: the tools are checked (and installed when the check fails, which
\* may raise; tools is what _check_installed comes to), the script is the one
\* the scenario names or else one generated from its requests, the properties
\* file is written and the reader of the KPI log is created
Prepare ==
    /\ op = "init"
    /\ op' = "prepare"
    /\ \E tools \in {"ready", "failed"} :
         IF tools = "failed"
         THEN /\ raised' = Exc("RuntimeError", "Unable to run Grinder after installation!")
              /\ ret' = "raise"
              /\ UNCHANGED <<script, kpi_file, reader, properties_file>>
         ELSE IF scenario.script = None /\ ~scenario.requests
         THEN /\ raised' = Exc("ValueError", "There must be a scenario file to run Grinder")
              /\ ret' = "raise"
              /\ UNCHANGED <<script, kpi_file, reader, properties_file>>
         ELSE /\ script' = IF scenario.script # None THEN Some(FindFile(scenario.script[1]))
                           ELSE Some(RequestsArtifact)
              /\ properties_file' = Some(PropertiesOf(settings, scenario, script'[1], load))
              /\ kpi_file' = KpiPath
              /\ reader' = "DataLogReader"
              /\ raised' = NoExc
              /\ ret' = "None"
    /\ UNCHANGED <<fileVars, procVars, now, process, retcode, start_time, end_time,
                   stdout_file, stderr_file, readerVars, ghostVars,
                   settings, scenario, load, installVars>>

\* startup: the start time is taken, the two sinks are opened and the
\* subprocess is started
Startup ==
    /\ reader # "None" /\ process = "None" /\ op \in {"prepare", "_read"}
    /\ start_time' = Some(now)
    /\ stdout_file' = "open"
    /\ stderr_file' = "open"
    /\ process' = "Popen"
    /\ proc' = "running"
    /\ op' = "startup" /\ ret' = "None" /\ raised' = NoExc
    /\ UNCHANGED <<toolVars, fileVars, exitcode, now, script, kpi_file, retcode, end_time, reader,
                   readerVars, ghostVars>>

\* process.poll()
Poll == IF proc = "exited" THEN Some(exitcode) ELSE None

\* Check without the size test: an empty log passes
CheckNoSize ==
    /\ process # "None"
    /\ op' = "check"
    /\ retcode' = Poll
    /\ IF Poll # None
       THEN IF Poll # Some(0)
            THEN /\ raised' = Exc("RuntimeError", "Grinder exited with non-zero code")
                 /\ ret' = "raise"
            ELSE IF kpi_file # "None" /\ ~exists
            THEN /\ raised' = Exc("RuntimeWarning",
                                  "Empty results log, most likely the tool failed: %s")
                 /\ ret' = "raise"
            ELSE /\ raised' = NoExc
                 /\ ret' = "True"
       ELSE /\ raised' = NoExc
            /\ ret' = "False"
    /\ UNCHANGED <<toolVars, fileVars, procVars, now, script, kpi_file, process, start_time, end_time,
                   reader, stdout_file, stderr_file, readerVars, ghostVars>>

\* check
Check ==
    /\ process # "None"
    /\ op' = "check"
    /\ retcode' = Poll
    /\ IF Poll # None
       THEN IF Poll # Some(0)
            THEN /\ raised' = Exc("RuntimeError", "Grinder exited with non-zero code")
                 /\ ret' = "raise"
            ELSE IF kpi_file # "None" /\ (~exists \/ written = 0)
            THEN /\ raised' = Exc("RuntimeWarning",
                                  "Empty results log, most likely the tool failed: %s")
                 /\ ret' = "raise"
            ELSE /\ raised' = NoExc
                 /\ ret' = "True"
       ELSE /\ raised' = NoExc
            /\ ret' = "False"
    /\ UNCHANGED <<toolVars, fileVars, procVars, now, script, kpi_file, process, start_time, end_time,
                   reader, stdout_file, stderr_file, readerVars, ghostVars>>

\* the signals shutdown_process sends: SIGTERM, and SIGKILL once the grace
\* period is over
KillCodes == {-15, -9}

\* shutdown_process(self.process, self.log): a subprocess still running is
\* signalled until it is gone
ShutdownProcess ==
    IF process # "None" /\ proc = "running"
    THEN proc' = "exited" /\ exitcode' \in KillCodes
    ELSE UNCHANGED procVars

\* file.close(), when the attribute holds a file
Closed(f) == IF f = "None" THEN "None" ELSE "closed"

\* shutdown
Shutdown ==
    /\ op' = "shutdown" /\ ret' = "None" /\ raised' = NoExc
    /\ ShutdownProcess
    /\ stdout_file' = Closed(stdout_file)
    /\ stderr_file' = Closed(stderr_file)
    /\ end_time' = IF start_time # None THEN Some(now) ELSE end_time
    /\ UNCHANGED <<toolVars, fileVars, now, script, kpi_file, process, retcode, start_time, reader,
                   readerVars, ghostVars>>

\* PostProcess judging by the size of the log instead of the reader's buffer
PostProcessBySize ==
    /\ proc # "running"
    /\ op' = "post_process"
    /\ IF reader # "None" /\ (~exists \/ written = 0)
       THEN /\ raised' = Exc("RuntimeWarning", "Empty results, most likely Grinder failed")
            /\ ret' = "raise"
       ELSE /\ raised' = NoExc
            /\ ret' = "None"
    /\ UNCHANGED <<toolVars, fileVars, procVars, now, execVars, readerVars, ghostVars>>

\* post_process
PostProcess ==
    /\ proc # "running"
    /\ op' = "post_process"
    /\ IF reader # "None" /\ buffer = <<>>
       THEN /\ raised' = Exc("RuntimeWarning", "Empty results, most likely Grinder failed")
            /\ ret' = "raise"
       ELSE /\ raised' = NoExc
            /\ ret' = "None"
    /\ UNCHANGED <<toolVars, fileVars, procVars, now, execVars, readerVars, ghostVars>>

Tick ==
    /\ now < MaxTime
    /\ now' = now + 1
    /\ UNCHANGED <<toolVars, fileVars, procVars, execVars, readerVars, obsVars, ghostVars>>

\* ------------------------------------------------------------ the tools

\* the Grinder tool before _check_installed has looked at it
InstallerIdle ==
    /\ page_source = None /\ links = <<>> /\ tool = "ok" /\ already_installed = FALSE
    /\ ipc = "idle" /\ cand = 1 /\ attempted = <<>>
    /\ nChecks = 0 /\ lastCheck = None /\ nDownloads = 0 /\ nUnzips = 0

\* ---- GrinderMirrorsManager

\* A mirror page lists at most MaxMirrors mirrors.
MaxMirrors == 2

\* GrinderExecutor.VERSION
Version == <<"3",".","1","1">>
\* GrinderExecutor.DOWNLOAD_LINK
DOWNLOAD_LINK ==
    <<"h","t","t","p",":","/","/","s","o","u","r","c","e","f","o","r","g","e",".","n","e","t","/","p","r","o","j","e","c","t","s","/","g","r","i","n","d","e","r","/","f","i","l","e","s","/","T","h","e","%","2","0","G","r","i","n","d","e","r","%","2","0","3","/","{","v","e","r","s","i","o","n","}","/","g","r","i","n","d","e","r","-","{","v","e","r","s","i","o","n","}","-","b","i","n","a","r","y",".","z","i","p","/","d","o","w","n","l","o","a","d">>
\* base_link of _parse_mirrors
BaseLink ==
    DOWNLOAD_LINK \o <<"?","u","s","e","_","m","i","r","r","o","r","=","{","m","i","r","r","o","r","}">>

VersionField == <<"{","v","e","r","s","i","o","n","}">>
MirrorField == <<"{","m","i","r","r","o","r","}">>

\* the opening and the closing of a list element that carries an id
LiOpen == <<"<","l","i"," ","i","d","=","\"">>
LiClose == <<"\"",">">>

\* the characters of the arguments of the two strip calls
CharsOf(s) == {s[i] : i \in 1..Len(s)}

\* str.strip(chars): leading and trailing characters of the set removed
StripChars(s, cs) ==
    IF \A i \in 1..Len(s) : s[i] \in cs THEN <<>>
    ELSE LET first == CHOOSE i \in 1..Len(s) :
                          s[i] \notin cs /\ \A j \in 1..(i - 1) : s[j] \in cs
             last == CHOOSE i \in 1..Len(s) :
                          s[i] \notin cs /\ \A j \in (i + 1)..Len(s) : s[j] \in cs
         IN SubSeq(s, first, last)

\* re.compile(r'<li id=".*?">').findall: from each opening the shortest
\* match that ends in the closing and stays on one line, left to right
RECURSIVE FindAllLi(_, _)
FindAllLi(text, from) ==
    LET ends(i) == {j \in (i + Len(LiOpen))..Len(text) :
                       /\ StartsAt(text, LiClose, j)
                       /\ \A k \in (i + Len(LiOpen))..(j - 1) : text[k] # "\n"}
        at == {i \in from..Len(text) : StartsAt(text, LiOpen, i) /\ ends(i) # {}}
    IN IF at = {} THEN <<>>
       ELSE LET i == Nth(at, 1)
                j == Nth(ends(i), 1)
            IN <<SubSeq(text, i, j + Len(LiClose) - 1)>>
               \o FindAllLi(text, j + Len(LiClose))

\* base_link.format(version=..., mirror=...)
MirrorLink(mirror) == Replace(Replace(BaseLink, VersionField, Version), MirrorField, mirror)
\* GrinderExecutor.DOWNLOAD_LINK.format(version=...)
DefaultLink == Replace(DOWNLOAD_LINK, VersionField, Version)

\* link.strip('<li id="').strip('">')
MirrorOf(link) == StripChars(StripChars(link, CharsOf(LiOpen)), CharsOf(LiClose))

\* _parse_mirrors leaving the canonical link out when the page gave mirrors
ParseMirrorsNoDefault(page) ==
    LET li_elements == IF page = None THEN <<>> ELSE FindAllLi(page[1], 1)
        scraped == [k \in 1..Len(li_elements) |-> MirrorLink(MirrorOf(li_elements[k]))]
    IN IF scraped = <<>> THEN <<DefaultLink>> ELSE scraped

\* _parse_mirrors
ParseMirrors(page) ==
    LET li_elements == IF page = None THEN <<>> ELSE FindAllLi(page[1], 1)
        scraped == [k \in 1..Len(li_elements) |-> MirrorLink(MirrorOf(li_elements[k]))]
    IN IF \E k \in 1..Len(scraped) : scraped[k] = DefaultLink
       THEN scraped ELSE Append(scraped, DefaultLink)

\* ---- mirror pages

\* ids of mirrors
TokKent == <<"k","e","n","t">>
TokIweb == <<"i","w","e","b">>
TokDfn == <<"d","f","n">>
Tokens == {TokKent, TokIweb, TokDfn}

\* a list element of the page
Li(tok) == LiOpen \o tok \o LiClose \o <<"m","<","/","l","i",">">>

TokenSeqs == UNION {[1..n -> Tokens] : n \in 0..MaxMirrors}

\* the page that lists the mirrors of toks
Page(toks) == <<"<","u","l",">">> \o Flatten([k \in 1..Len(toks) |-> Li(toks[k])]) \o <<"<","/","u","l",">">>

\* what the fetch of the mirror page leaves in page_source: None when the
\* page is unavailable
Pages == {None} \cup {Some(Page(toks)) : toks \in TokenSeqs}

\* ---- Grinder (RequiredTool)

\* the exit code of `java -classpath tool_path net.grinder.Grinder`
SelfCheck(t) == IF t = "ok" THEN 0 ELSE 1

\* _check_installed at the Grinder tool: check_if_installed
CheckIfInstalled ==
    /\ ipc = "unchecked"
    /\ nChecks' = nChecks + 1
    /\ lastCheck' = Some(SelfCheck(tool))
    /\ IF SelfCheck(tool) = 0
       THEN /\ already_installed' = TRUE
            /\ ipc' = "verified"
            /\ ret' = "True"
       ELSE /\ already_installed' = already_installed
            /\ ipc' = "install"
            /\ ret' = "False"
    /\ op' = "check_if_installed" /\ raised' = NoExc
    /\ UNCHANGED <<fileVars, procVars, now, execVars, readerVars, ghostVars, confVars,
                   page_source, links, tool, cand, attempted, nDownloads, nUnzips>>

\* install, install_with_mirrors: the candidates are asked of the mirrors
\* manager
Mirrors ==
    /\ ipc = "install"
    /\ links' = ParseMirrors(page_source)
    /\ cand' = 1
    /\ ipc' = "download"
    /\ op' = "_parse_mirrors" /\ ret' = "links" /\ raised' = NoExc
    /\ UNCHANGED <<fileVars, procVars, now, execVars, readerVars, ghostVars, confVars,
                   page_source, tool, already_installed, attempted, nChecks, lastCheck,
                   nDownloads, nUnzips>>

\* Download going on to the next candidate after a download that succeeded
DownloadAll ==
    /\ ipc = "download" /\ cand <= Len(links)
    /\ attempted' = Append(attempted, links[cand])
    /\ op' = "download"
    /\ \E ok \in BOOLEAN :
         /\ nDownloads' = IF ok THEN nDownloads + 1 ELSE nDownloads
         /\ IF cand < Len(links)
            THEN /\ cand' = cand + 1 /\ ipc' = "download"
                 /\ ret' = "next" /\ raised' = NoExc
            ELSE IF nDownloads' > 0
            THEN /\ ipc' = "unzip" /\ cand' = cand
                 /\ ret' = "archive" /\ raised' = NoExc
            ELSE /\ ipc' = "failed" /\ cand' = cand
                 /\ ret' = "raise"
                 /\ raised' = Exc("ToolUnavailableError", "no more mirrors to try")
    /\ UNCHANGED <<fileVars, procVars, now, execVars, readerVars, ghostVars, confVars,
                   page_source, links, tool, already_installed, nChecks, lastCheck,
                   nUnzips>>

\* install_with_mirrors: the next candidate is downloaded to a temporary
\* file; the first download that succeeds ends the search, the failure of
\* the last candidate is the failure of the installation
Download ==
    /\ ipc = "download" /\ cand <= Len(links)
    /\ attempted' = Append(attempted, links[cand])
    /\ op' = "download"
    /\ \E ok \in BOOLEAN :
         IF ok
         THEN /\ nDownloads' = nDownloads + 1
              /\ ipc' = "unzip" /\ cand' = cand
              /\ ret' = "archive" /\ raised' = NoExc
         ELSE /\ nDownloads' = nDownloads
              /\ IF cand < Len(links)
                 THEN /\ cand' = cand + 1 /\ ipc' = "download"
                      /\ ret' = "next" /\ raised' = NoExc
                 ELSE /\ ipc' = "failed" /\ cand' = cand
                      /\ ret' = "raise"
                      /\ raised' = Exc("ToolUnavailableError", "no more mirrors to try")
    /\ UNCHANGED <<fileVars, procVars, now, execVars, readerVars, ghostVars, confVars,
                   page_source, links, tool, already_installed, nChecks, lastCheck,
                   nUnzips>>

\* Install taking the extraction for the installation, without the re-check
InstallNoRecheck ==
    /\ ipc = "unzip"
    /\ nUnzips' = nUnzips + 1
    /\ tool' \in {"ok", "broken"}
    /\ ipc' = "verified"
    /\ ret' = "None" /\ raised' = NoExc
    /\ op' = "install"
    /\ UNCHANGED <<fileVars, procVars, now, execVars, readerVars, ghostVars, confVars,
                   page_source, links, cand, attempted, nDownloads,
                   nChecks, lastCheck, already_installed>>

\* install, after the download: the archive is unzipped and removed, and
\* check_if_installed is run on what it left at tool_path
Install ==
    /\ ipc = "unzip"
    /\ nUnzips' = nUnzips + 1
    /\ tool' \in {"ok", "broken"}
    /\ nChecks' = nChecks + 1
    /\ lastCheck' = Some(SelfCheck(tool'))
    /\ IF SelfCheck(tool') = 0
       THEN /\ already_installed' = TRUE
            /\ ipc' = "verified"
            /\ ret' = "None" /\ raised' = NoExc
       ELSE /\ already_installed' = already_installed
            /\ ipc' = "failed"
            /\ ret' = "raise"
            /\ raised' = Exc("RuntimeError", "Unable to run Grinder after installation!")
    /\ op' = "install"
    /\ UNCHANGED <<fileVars, procVars, now, execVars, readerVars, ghostVars, confVars,
                   page_source, links, cand, attempted, nDownloads>>

\* The executor as constructed, the Grinder tool about to be checked: it is
\* there and runs, is not there, or is there and does not run.
InitInstall ==
    /\ log = 1
    /\ exists = FALSE /\ written = 0
    /\ proc = "none" /\ exitcode = 0
    /\ now = 1
    /\ script = None /\ kpi_file = "None" /\ process = "None"
    /\ retcode = None /\ start_time = None /\ end_time = None
    /\ reader = "None"
    /\ stdout_file = "None" /\ stderr_file = "None"
    /\ fds = "None" /\ idx = EmptyIdx /\ partial_buffer = <<>> /\ offset = 0
    /\ buffer = <<>> /\ pc = "idle" /\ last_pass = FALSE
    /\ op = "init" /\ ret = "None" /\ raised = NoExc
    /\ openedAt = 0 /\ nReads = 0 /\ firstFinal = FALSE /\ notReady = 0
    /\ finalDone = FALSE
    /\ settings = NoSettings /\ load = NoLoad /\ properties_file = None
    /\ scenario = [script |-> Some(ScenarioScript), requests |-> FALSE,
                   file |-> None, props |-> <<>>]
    /\ page_source \in Pages
    /\ tool \in {"ok", "absent", "broken"}
    /\ links = <<>> /\ already_installed = FALSE
    /\ ipc = "unchecked" /\ cand = 1 /\ attempted = <<>>
    /\ nChecks = 0 /\ lastCheck = None /\ nDownloads = 0 /\ nUnzips = 0

NextInstall ==
    \/ CheckIfInstalled
    \/ Mirrors
    \/ Download
    \/ Install

SpecInstall == InitInstall /\ [][NextInstall]_vars

\* ---------------------------------------------------- the reader at work

\* the scenario of the runs below names a script
ScriptScenario == [script |-> Some(ScenarioScript), requests |-> FALSE,
                   file |-> None, props |-> <<>>]

\* The executor prepared and started, the subprocess running, no log yet.
InitReader ==
    /\ log \in 1..Len(Logs)
    /\ exists = FALSE /\ written = 0
    /\ proc = "running" /\ exitcode = 0
    /\ now = 1
    /\ script = Some(ScenarioScript) /\ kpi_file = KpiPath /\ process = "Popen"
    /\ retcode = None /\ start_time = Some(1) /\ end_time = None
    /\ reader = "DataLogReader"
    /\ stdout_file = "open" /\ stderr_file = "open"
    /\ fds = "None" /\ idx = EmptyIdx /\ partial_buffer = <<>> /\ offset = 0
    /\ buffer = <<>> /\ pc = "idle" /\ last_pass = FALSE
    /\ op = "startup" /\ ret = "None" /\ raised = NoExc
    /\ openedAt = 0 /\ nReads = 0 /\ firstFinal = FALSE /\ notReady = 0
    /\ finalDone = FALSE
    /\ settings = NoSettings /\ scenario = ScriptScenario /\ load = NoLoad
    /\ properties_file = Some(PropertiesOf(NoSettings, ScriptScenario, ScenarioScript, NoLoad))
    /\ InstallerIdle

NextReader ==
    \/ CreateLog
    \/ AppendLog
    \/ ProcessExit(0)
    \/ ReadNotReady
    \/ ReadOpen
    \/ ReadData

SpecReader == InitReader /\ [][NextReader]_vars

\* The consumer takes at most MaxTake Samples of a poll before it drops the
\* generator.
MaxTake == 1

\* _read on a poll whose consumer stops iterating after `take` Samples
ReadSome ==
    /\ pc = "idle" /\ fds = "open" /\ CanCall(FALSE)
    /\ \E take \in 1..MaxTake : ReadFrom(FALSE, take)

NextRestart ==
    \/ NextReader
    \/ ReadSome

SpecRestart == InitReader /\ [][NextRestart]_vars

\* ------------------------------------------ the executor and its subprocess

\* The logs of the runs below: data rows, a header alone, a header and a
\* row that is skipped.
RunLogs == {1, 3, 4}

Init ==
    /\ log \in RunLogs
    /\ exists = FALSE /\ written = 0
    /\ proc = "none" /\ exitcode = 0
    /\ now = 1
    /\ script = None /\ kpi_file = "None" /\ process = "None"
    /\ retcode = None /\ start_time = None /\ end_time = None
    /\ reader = "None"
    /\ stdout_file = "None" /\ stderr_file = "None"
    /\ fds = "None" /\ idx = EmptyIdx /\ partial_buffer = <<>> /\ offset = 0
    /\ buffer = <<>> /\ pc = "idle" /\ last_pass = FALSE
    /\ op = "init" /\ ret = "None" /\ raised = NoExc
    /\ openedAt = 0 /\ nReads = 0 /\ firstFinal = FALSE /\ notReady = 0
    /\ finalDone = FALSE
    /\ settings = NoSettings /\ scenario \in Scenarios /\ load = NoLoad
    /\ properties_file = None
    /\ InstallerIdle

\* prepare, startup, the polls of check and shutdown, against the subprocess
\* and the clock
Next ==
    \/ Prepare
    \/ Startup
    \/ Check
    \/ Shutdown
    \/ Tick
    \/ CreateLog
    \/ AppendLine
    \/ \E c \in ExitCodes : ProcessExit(c)

Spec == Init /\ [][Next]_vars

\* ------------------------------------------------------------ the teardown

InitFinal == InitReader /\ log \in RunLogs

\* a started run to its end: the subprocess writes and exits or is shut
\* down, the reader is polled and read a last time, post_process follows
NextFinal ==
    \/ CreateLog
    \/ AppendLog
    \/ \E c \in ExitCodes : ProcessExit(c)
    \/ ReadNotReady
    \/ ReadOpen
    \/ ReadData
    \/ Shutdown
    \/ PostProcess

SpecFinal == InitFinal /\ [][NextFinal]_vars

\* ------------------------------------------------- prepare and its inputs

\* The executor as constructed, with the settings, the scenario and the load
\* profile of the run.
InitPrepare ==
    /\ log = 1
    /\ exists = FALSE /\ written = 0
    /\ proc = "none" /\ exitcode = 0
    /\ now = 1
    /\ script = None /\ kpi_file = "None" /\ process = "None"
    /\ retcode = None /\ start_time = None /\ end_time = None
    /\ reader = "None"
    /\ stdout_file = "None" /\ stderr_file = "None"
    /\ fds = "None" /\ idx = EmptyIdx /\ partial_buffer = <<>> /\ offset = 0
    /\ buffer = <<>> /\ pc = "idle" /\ last_pass = FALSE
    /\ op = "init" /\ ret = "None" /\ raised = NoExc
    /\ openedAt = 0 /\ nReads = 0 /\ firstFinal = FALSE /\ notReady = 0
    /\ finalDone = FALSE
    /\ settings \in AllSettings /\ scenario \in AllScenarios /\ load \in Loads
    /\ properties_file = None
    /\ InstallerIdle

NextPrepare == Prepare

SpecPrepare == InitPrepare /\ [][NextPrepare]_vars

\* ------------------------------------------------- what the log should give

FieldsOf(line) == Split(Strip(line), Delimiter)

\* the second column is a non-negative integer string
DataRow(line) == Len(FieldsOf(line)) >= 2 /\ IsDigit(Strip(FieldsOf(line)[2]))

\* a data row with every column of the header, integers where _read wants them
ValidRow(line) ==
    /\ Len(FieldsOf(line)) = Len(Columns)
    /\ DataRow(line)
    /\ \A k \in 1..Len(Columns) : Columns[k].int => IntOK(FieldsOf(line)[k])

\* a complete line that is no data row: two fields at least, the second no number
NonDataRow(line) == Len(FieldsOf(line)) >= 2 /\ ~DataRow(line)

\* the header is HeaderLine and every row is a data row or a non-data row
WellFormedLog(f) ==
    /\ Logs[f][1] = HeaderLine
    /\ \A k \in 2..Len(Logs[f]) : ValidRow(Logs[f][k]) \/ NonDataRow(Logs[f][k])

\* the Sample of a valid row, by the position of the columns in HeaderLine
ExpectedSample(line) ==
    LET f == FieldsOf(line)
    IN [t_stamp |-> FInt(Div1000(IntOf(f[1]))),
        label |-> "",
        concur |-> None,
        r_time |-> Div1000(IntOf(f[2])),
        con_time |-> Div1000(IntOf(f[5]) + IntOf(f[6])),
        latency |-> Div1000(IntOf(f[3])),
        r_code |-> Strip(f[4]),
        error |-> IF IntOf(f[7]) # 0 THEN Some(ErrorMessage) ELSE None,
        trname |-> ""]

\* the data rows of log f, in file order, each with the position of its end
Expected(f) ==
    LET rows == SelectSeq([k \in 1..Len(Logs[f]) |-> k],
                          LAMBDA k : k >= 2 /\ DataRow(Logs[f][k]))
    IN [i \in 1..Len(rows) |->
          [pos |-> LineEnd(f, rows[i]), sample |-> ExpectedSample(Logs[f][rows[i]])]]

LogComplete == written = Len(LogText[log])

\* the index __open_fds builds from the whole header line
FullIdx == HeaderIdx(EmptyIdx, HeaderLine)

\* ------------------------------------------------------------------ claims

\* C1: for every interleaving of the writer's appends (each possibly ending
\* in the middle of a line, the header's included) with polls and one final
\* last_pass read after the writer has finished, the Samples emitted are
\* exactly the data rows of the log, once each and in file order.
C1_EveryRowOnceInOrder ==
    (finalDone /\ pc = "idle" /\ LogComplete /\ WellFormedLog(log))
        => buffer = Expected(log)

\* C2: when a read ended inside data row k and a later read returns the rest
\* of the row, exactly one Sample is emitted for the row, the one of the whole
\* line, the Samples emitted before stay, and every later data row of the
\* read has its Sample too.
C2_SplitLineOneSample ==
    [][\A k \in 2..Len(Logs[log]) :
         ( /\ WellFormedLog(log)
           /\ DataRow(Logs[log][k])
           /\ LineEnd(log, k - 1) < offset /\ offset < LineEnd(log, k)
           /\ offset' >= LineEnd(log, k) )
         => /\ Len(buffer') >= Len(buffer)
            /\ SubSeq(buffer', 1, Len(buffer)) = buffer
            /\ \A j \in k..Len(Logs[log]) :
                 (DataRow(Logs[log][j]) /\ LineEnd(log, j) <= offset')
                 => /\ Cardinality({i \in DOMAIN buffer' :
                                      buffer'[i].pos = LineEnd(log, j)}) = 1
                    /\ \E i \in DOMAIN buffer' :
                         buffer'[i] = [pos |-> LineEnd(log, j),
                                       sample |-> ExpectedSample(Logs[log][j])]
      ]_vars

\* C3: as long as every _read call found the log missing or empty, no Sample
\* has been emitted, nothing was raised and the reader is as constructed,
\* however many such calls there were; and when the first call that finds
\* the log finds it complete (header and terminated rows), that call, a
\* poll, emits all the data rows.
C3_NotReadyThenAll ==
    /\ (nReads = 0 /\ pc = "idle")
          => (buffer = <<>> /\ raised = NoExc /\ fds = "None" /\ offset = 0
              /\ partial_buffer = <<>>)
    /\ (nReads = 1 /\ pc = "idle" /\ ~firstFinal /\ openedAt = Len(LogText[log])
        /\ WellFormedLog(log))
          => (raised = NoExc /\ buffer = Expected(log))

C3_Witness ==
    /\ notReady >= 2 /\ nReads = 1 /\ pc = "idle" /\ ~firstFinal
    /\ openedAt = Len(LogText[log]) /\ WellFormedLog(log)
    /\ Len(buffer) = 2

C5_MalformedLineNeverFatal ==
    (op = "_read" /\ idx = FullIdx) => raised = NoExc

\* C6: a check made while the subprocess runs returns False; a check
\* returns True only when the subprocess has exited with code 0 and the KPI
\* log exists and is not empty; and after exit code 0 with the log missing
\* or empty the check raises the empty-results warning.
C6_CheckResult ==
    [][Check =>
         /\ (proc = "running" => (ret' = "False" /\ raised' = NoExc))
         /\ (ret' = "False" => proc = "running")
         /\ (ret' = "True" =>
               (proc = "exited" /\ exitcode = 0 /\ exists /\ written > 0
                /\ raised' = NoExc))
         /\ ((proc = "exited" /\ exitcode = 0 /\ (~exists \/ written = 0))
               => (ret' = "raise" /\ raised'.cls = "RuntimeWarning"))
      ]_vars

C6_Witness ==
    /\ op = "check" /\ ret = "True" /\ retcode = Some(0)
    /\ proc = "exited" /\ exists /\ written > 0

\* "%s" % code
CodeStr(c) == CASE c = 0 -> "0" [] c = 1 -> "1" [] c = -15 -> "-15" [] c = -9 -> "-9"

\* the classes of the other failures the executor reports: no script and no
\* requests (prepare), empty results (check, post_process), the tool not
\* running after its installation (Grinder.install)
OtherFailureClasses == {"ValueError", "RuntimeWarning", "RuntimeError"}

\* C7: a check that sees the subprocess gone with a non-zero exit code raises an exception that
\* carries the code and whose class is none of the classes of the other
\* failures.
C7_ProcessErrorCarriesCode ==
    (op = "check" /\ retcode # None /\ retcode # Some(0) /\ retcode[1] \in ExitCodes)
        => /\ ret = "raise"
           /\ \E i \in DOMAIN raised.args : raised.args[i] = CodeStr(retcode[1])
           /\ raised.cls \notin OtherFailureClasses

\* C8: post_process raises the empty-results warning exactly when the
\* reader has emitted no Sample, whatever the exit code and the size of the
\* log; a log with no data row (a header alone, rows all skipped) always
\* makes it raise.
C8_FinalizeEmptyIff ==
    [][(PostProcess /\ reader # "None") =>
         /\ (ret' = "raise") <=> (Len(buffer) = 0)
         /\ (ret' = "raise") => (raised'.cls = "RuntimeWarning")
         /\ (Expected(log) = <<>>) => (ret' = "raise")
      ]_vars

C8_Witness ==
    /\ op = "post_process" /\ ret = "raise" /\ raised.cls = "RuntimeWarning"
    /\ proc = "exited" /\ exitcode = 0
    /\ LogComplete /\ written > 0 /\ finalDone /\ offset = written

\* C9: shutdown never fails and leaves the subprocess not running and both
\* sinks closed; and a shutdown that follows a shutdown changes nothing of
\* the executor, the recorded end time included.
C9_ShutdownIdempotent ==
    [][Shutdown =>
         /\ raised' = NoExc
         /\ proc' # "running"
         /\ stdout_file' # "open" /\ stderr_file' # "open"
         /\ (op = "shutdown" => UNCHANGED <<execVars, procVars>>)
      ]_vars

\* C10: when the consumer of a poll stops before the Samples of the poll are
\* exhausted, the later calls deliver the rest: after the last_pass every
\* data row has been delivered once.
C10_RestartDeliversRest ==
    (finalDone /\ pc = "idle" /\ LogComplete /\ WellFormedLog(log) /\ idx = FullIdx)
        => buffer = Expected(log)

\* ------------------------------------------- what the mirror page should give

\* the canonical direct-download URL of version 3.11
CanonicalUrl ==
    <<"h","t","t","p",":","/","/","s","o","u","r","c","e","f","o","r","g","e",".","n","e","t","/","p","r","o","j","e","c","t","s","/","g","r","i","n","d","e","r","/","f","i","l","e","s","/","T","h","e","%","2","0","G","r","i","n","d","e","r","%","2","0","3","/","3",".","1","1","/","g","r","i","n","d","e","r","-","3",".","1","1","-","b","i","n","a","r","y",".","z","i","p","/","d","o","w","n","l","o","a","d">>

MirrorKey == <<"u","s","e","_","m","i","r","r","o","r","=">>

\* the value of the use_mirror parameter of a URL, None when it has none
MirrorParam(url) ==
    LET at == {i \in 1..Len(url) : StartsAt(url, MirrorKey, i)}
    IN IF at = {} THEN None ELSE Some(SubSeq(url, Nth(at, 1) + Len(MirrorKey), Len(url)))

IsSuffix(t, s) == Len(t) <= Len(s) /\ SubSeq(s, Len(s) - Len(t) + 1, Len(s)) = t

\* the ids the mirror page lists, in page order
PageTokens ==
    IF page_source = None THEN <<>>
    ELSE CHOOSE toks \in TokenSeqs : Page(toks) = page_source[1]

\* install_with_mirrors has its candidates
Parsed == ipc \in {"download", "unzip", "failed"} \/ (ipc = "verified" /\ nUnzips = 1)

\* C11: for every mirror page, the unavailable page and the page without
\* list elements included, the candidates are one URL per list element, in
\* page order, each the canonical URL with a use_mirror parameter taken from
\* its element, and then the canonical URL, which is last and occurs once;
\* the canonical URL alone when there is no page or no element.
C11_CanonicalLastOnce ==
    Parsed =>
      /\ Len(links) = Len(PageTokens) + 1
      /\ links[Len(links)] = CanonicalUrl
      /\ Cardinality({k \in DOMAIN links : links[k] = CanonicalUrl}) = 1
      /\ \A k \in 1..Len(PageTokens) :
           /\ StartsAt(links[k], CanonicalUrl \o <<"?">> \o MirrorKey, 1)
           /\ IsSuffix(MirrorParam(links[k])[1], PageTokens[k])
      /\ (PageTokens = <<>> => links = <<CanonicalUrl>>)

C11_Witness ==
    /\ Parsed /\ Len(PageTokens) = 2 /\ PageTokens[1] # PageTokens[2]
    /\ Len(links) = 3 /\ links[3] = CanonicalUrl /\ links[1] # links[2]

\* C12: the candidate list holds no URL twice, also when the page lists the
\* same id more than once.
C12_NoUrlTwice ==
    Parsed => \A i, j \in DOMAIN links : i # j => links[i] # links[j]

\* C18: the candidate built for the k-th id of the page carries that id,
\* character for character, as its use_mirror parameter.
C18_TokenVerbatim ==
    Parsed => \A k \in 1..Len(PageTokens) :
                 k <= Len(links) /\ MirrorParam(links[k]) = Some(PageTokens[k])

\* C13: the candidates are contacted in list order, one at a step; after a
\* download that succeeded no candidate is contacted; the installation fails
\* with ToolUnavailableError exactly when every candidate has been contacted
\* and none could be downloaded; the archive that is unzipped is the one of
\* the last candidate contacted.
C13_MirrorsInOrder ==
    [][ /\ Len(attempted') <= Len(links')
        /\ \A k \in DOMAIN attempted' : attempted'[k] = links'[k]
        /\ Len(attempted') <= Len(attempted) + 1
        /\ (nDownloads >= 1 => (attempted' = attempted /\ nDownloads' = nDownloads))
        /\ (raised'.cls = "ToolUnavailableError"
              <=> (links' # <<>> /\ attempted' = links' /\ nDownloads' = 0))
        /\ (raised'.cls = "ToolUnavailableError" => ipc' = "failed")
        /\ (ipc' = "unzip" => (nDownloads' = 1 /\ Len(attempted') = cand'))
      ]_vars

C13_Witness ==
    /\ ipc = "verified" /\ Len(links) >= 2 /\ Len(attempted) = 2 /\ nDownloads = 1
    /\ nChecks = 2 /\ lastCheck = Some(0) /\ tool = "ok"

\* C14: the tool counts as installed only when the most recent self-check
\* exited with 0; when the first self-check passes nothing is asked of the
\* mirrors, downloaded or unzipped; an archive that was downloaded is
\* unzipped once and the self-check run once more, the second time in all;
\* when that self-check fails the installation fails with the error of
\* Grinder.install and nothing more is downloaded or unzipped.
C14_EnsureInstalled ==
    /\ ipc = "verified" => (lastCheck = Some(0) /\ tool = "ok" /\ already_installed)
    /\ (ipc = "verified" /\ nChecks = 1)
         => (links = <<>> /\ attempted = <<>> /\ nDownloads = 0 /\ nUnzips = 0)
    /\ nChecks <= 2 /\ nUnzips <= 1 /\ nDownloads <= 1
    /\ nUnzips = 1 => (nChecks = 2 /\ nDownloads = 1)
    /\ (nUnzips = 1 /\ lastCheck # Some(0))
         => (ipc = "failed" /\ ret = "raise" /\ raised.cls = "RuntimeError"
             /\ ~ENABLED NextInstall)

C14_Witness ==
    /\ ipc = "failed" /\ nUnzips = 1 /\ nChecks = 2 /\ nDownloads = 1
    /\ lastCheck = Some(1) /\ raised.cls = "RuntimeError"

\* ------------------------------------------ what the properties file holds

\* a line of a properties file that sets the key grinder.script
IsScriptLine(line) ==
    LET parts == Split(line, "=")
    IN Len(parts) >= 2 /\ Strip(parts[1]) = ScriptKey

\* the script-path property lines of a properties text
ScriptLines(text) == {k \in DOMAIN Lines(text) : IsScriptLine(Lines(text)[k])}

\* the value of a property line
ValueOf(line) ==
    LET eq == {i \in 1..Len(line) : line[i] = "="}
    IN Strip(SubSeq(line, Nth(eq, 1) + 1, Len(line)))

\* C15: after a prepare that succeeded the properties file holds exactly one
\* grinder.script line, whatever the properties files and the inline
\* properties of the settings and of the scenario say about the script; and
\* when the scenario names a script that line names the scenario's script.
C15_OneScriptLine ==
    (op = "prepare" /\ ret = "None") =>
      LET text == properties_file[1]
      IN /\ Cardinality(ScriptLines(text)) = 1
         /\ scenario.script # None =>
              \A k \in ScriptLines(text) :
                 Basename(ValueOf(Lines(text)[k])) = Basename(scenario.script[1])

BaseRowAt(p) ==
    LET k == CHOOSE j \in 1..Len(Logs[log]) : LineEnd(log, j) = p
    IN Logs[LogBase[log]][k]

\* the Sample the specification gives for the row 1000,250,50,200,10,5,0
SampleA ==
    [t_stamp |-> 1, label |-> "", concur |-> None,
     r_time |-> [sec |-> 0, ms |-> 250],
     con_time |-> [sec |-> 0, ms |-> 15],
     latency |-> [sec |-> 0, ms |-> 50],
     r_code |-> <<"2", "0", "0">>,
     error |-> None, trname |-> ""]

\* C16: in a log whose rows are valid data rows and non-data rows, every
\* Sample emitted is the Sample of the data row it was read from: timestamp
\* the start time in whole seconds, response time, latency and connect time
\* (resolve + establish) the millisecond fields over 1000, the response
\* code trimmed, concurrency unknown, error set exactly when the Errors
\* field is not 0; the row 1000,250,50,200,10,5,0 gives timestamp 1, 0.25,
\* 0.05, 0.015, "200" and no error.
C16_SampleFields ==
    WellFormedLog(LogBase[log]) =>
      \A i \in DOMAIN buffer :
         /\ \E j \in 1..Len(Logs[log]) : LineEnd(log, j) = buffer[i].pos
         /\ ValidRow(BaseRowAt(buffer[i].pos))
         /\ buffer[i].sample = ExpectedSample(BaseRowAt(buffer[i].pos))
         /\ buffer[i].sample.concur = None
         /\ BaseRowAt(buffer[i].pos) = RowA => buffer[i].sample = SampleA

C16_Witness ==
    /\ Len(buffer) = 2
    /\ BaseRowAt(buffer[1].pos) = RowA /\ buffer[1].sample = SampleA
    /\ BaseRowAt(buffer[2].pos) = RowB
    /\ buffer[2].sample.t_stamp = 2 /\ buffer[2].sample.error = Some(ErrorMessage)
    /\ buffer[2].sample.con_time = [sec |-> 0, ms |-> 3]

\* the first read found the whole log and has run to its end
FirstReadOfWholeLog == nReads = 1 /\ pc = "idle" /\ openedAt = Len(LogText[log])

\* the columns of the log are the columns of a well-formed log in another
\* order
PermutedLog == LogBase[log] # log /\ WellFormedLog(LogBase[log])

\* C19 as stated: a log whose columns are permuted, header and rows alike,
\* gives the Samples of the log it is a permutation of, whatever the
\* permutation.
C19_AnyPermutation ==
    (FirstReadOfWholeLog /\ PermutedLog)
        => (raised = NoExc /\ buffer = Expected(LogBase[log]))

\* C19 amended: the test that takes a row for a data row reads the second
\* field of the line; a log whose columns are permuted with the second
\* column left in its place gives the Samples of the log it is a
\* permutation of.
C19_SecondColumnFixed ==
    (FirstReadOfWholeLog /\ PermutedLog /\ LogPerm[log][2] = 2)
        => (raised = NoExc /\ buffer = Expected(LogBase[log]))

C19_Witness ==
    /\ FirstReadOfWholeLog /\ PermutedLog /\ LogPerm[log][2] = 2
    /\ LogPerm[log][1] # 1
    /\ Len(buffer) = 2 /\ buffer[1].sample = SampleA
    /\ \E k \in 2..Len(Logs[log]) : NonDataRow(Logs[log][k])

\* C20: once __open_fds has opened the log, the header index maps every
\* column name of the whole header line to its position, and no row fails
\* on a missing column, at whatever point of the writer's flushes the log
\* was opened.
C20_IndexOfWholeHeader ==
    fds = "open" => /\ idx = HeaderIdx(EmptyIdx, Logs[log][1])
                    /\ raised.cls # "KeyError"
====
